---- MODULE Spec2Model ----
(***************************************************************************)
(* The Direct Mounter of react-confirm: createDomTreeMounter                *)
(* (src/mounter/domTree.tsx).  One mounter instance with its private        *)
(* registry `confirms`, the DOM it appends wrapper nodes to and the React   *)
(* roots it creates.  mount and unmount are synchronous handlers, so each   *)
(* is one action; the order of the steps inside a handler is kept in the    *)
(* event trace of the last call.                                            *)
(***************************************************************************)
EXTENDS Integers, Sequences, FiniteSets, TLC

(* ------------------------------ bounds --------------------------------- *)

\* Size of the key space the model draws Math.random() from; it stands for
\* the 1 << 30 of generateKey.
KeySpace == 2

\* Number of wrapper elements (document.createElement calls) a behaviour holds.
MaxMounts == 2

\* Longest chain of unmount calls re-entered from inside root.unmount().
MaxReenter == 1

(* --------------------------- values and inputs -------------------------- *)

\* undefined: an argument that was not passed, a property that is not set.
Undefined == "undefined"

\* No exception pending.
NoError == "none"

\* The steps of mount that may throw (inside its try block), in code order.
MountSteps == <<"appendChild", "createRoot", "render", "mounted">>

\* The error a failing step of mount raises: each step fails with its own.
ErrorOf(step) ==
  CASE step = "appendChild" -> "TypeError"
    [] step = "createRoot" -> "ContainerError"
    [] step = "render" -> "RenderError"
    [] step = "mounted" -> "CallbackError"

\* The component types and props objects callers pass to mount.
Components == {"DialogA", "DialogB"}
PropsSet == {"props1"}

\* Nodes a caller may pass as the per-call mountNode, or none.
MountNodes == {Undefined, "nodeA"}

\* The argument createDomTreeMounter may be given.
DefaultNodes == {Undefined, "defaultNode"}

\* document.body
DocumentBody == "body"

HexDigit == <<"0", "1", "2", "3", "4", "5", "6", "7", "8", "9", "a", "b", "c", "d", "e", "f">>

\* Number.prototype.toString(16) of a non-negative integer: its hexadecimal
\* digits, most significant first, without leading zeros.
RECURSIVE ToString16(_)
ToString16(n) ==
  IF n < 16 THEN <<HexDigit[n + 1]>>
  ELSE ToString16(n \div 16) \o <<HexDigit[(n % 16) + 1]>>

\* Math.floor(Math.random() * (1 << 30)): the integers Math.random can yield.
RandomInts == 0 .. (KeySpace - 1)

\* generateKey with the outcome of Math.random fixed to rnd.
generateKey(rnd) == ToString16(rnd)

\* Every string generateKey can return.
Keys == {generateKey(rnd) : rnd \in RandomInts}

\* Identities of the wrapper elements, and of the roots created on them:
\* root i is the root created on wrapper i.
Ids == 1 .. MaxMounts

(* ------------------------------- state ---------------------------------- *)

VARIABLES
  defaultMountNode, \* the argument of createDomTreeMounter
  confirms,         \* the registry: key -> [wrapper, root]
  callbacks,        \* the private callbacks record: [mounted |-> ...]
  attached,         \* the DOM: attached wrapper -> its parent node
  liveRoots,        \* roots created and not yet unmounted
  rendered,         \* root -> <<Component, props>> last rendered into it
  nextId,           \* number of wrapper elements created so far
  rootUnmounts,     \* root -> number of root.unmount() calls by the mounter
  removes,          \* wrapper -> number of wrapper.remove() calls by the mounter
  last,             \* the last call on a mounter and what it did
  hist,             \* history: what mount returned and unmount removed
  other,            \* the closure of a second mounter, made by another call of
                    \* createDomTreeMounter: [defaultMountNode, callbacks, confirms]
  options           \* the object literal returned as the mounter's options

vars == <<defaultMountNode, confirms, callbacks, attached, liveRoots, rendered,
          nextId, rootUnmounts, removes, last, hist, other, options>>

EmptyMap == [x \in {} |-> x]

\* delete f[k]
Delete(f, k) == [x \in (DOMAIN f) \ {k} |-> f[x]]

\* f[k] = v
Put(f, k, v) == [x \in (DOMAIN f) \cup {k} |-> IF x = k THEN v ELSE f[x]]

(* ------------------------ the handlers' working state ------------------- *)

\* What a handler reads and writes while it runs: the closure of its mounter
\* (the default node, the callbacks record, the registry), the DOM and the
\* roots, the exception pending in the handler (exc), the events of the call
\* in execution order (trace).
State ==
  [defaultMountNode |-> defaultMountNode, callbacks |-> callbacks,
   confirms |-> confirms, attached |-> attached, liveRoots |-> liveRoots,
   rendered |-> rendered, nextId |-> nextId, rootUnmounts |-> rootUnmounts,
   removes |-> removes, exc |-> NoError, trace |-> <<>>]

\* One step of a handler: what was called, in the call for which key, and
\* whether the registry tracked that key at that moment.
Event(s, ev, key) == [ev |-> ev, key |-> key, tracked |-> key \in DOMAIN s.confirms]

Log(s, ev, key) == [s EXCEPT !.trace = Append(@, Event(s, ev, key))]

\* throw error
Throw(s, error) == [s EXCEPT !.exc = error]

\* An input of mount: the step that throws in this call, if any, and the error.
NoFault == [step |-> "none", error |-> NoError]
Faults ==
  {NoFault} \cup
  {[step |-> MountSteps[i], error |-> ErrorOf(MountSteps[i])] : i \in 1 .. Len(MountSteps)}

(* -------------------------------- mount --------------------------------- *)

\* Mutant of getParentNode: the default node wins over the per-call override.
getParentNode_defaultFirst(s, mountNode) ==
  IF s.defaultMountNode # Undefined THEN s.defaultMountNode
  ELSE IF mountNode # Undefined THEN mountNode
  ELSE DocumentBody

\* getParentNode: mountNode || defaultMountNode || document.body
getParentNode(s, mountNode) ==
  IF mountNode # Undefined THEN mountNode
  ELSE IF s.defaultMountNode # Undefined THEN s.defaultMountNode
  ELSE DocumentBody

\* const wrapper = parent.appendChild(document.createElement('div'))
appendChild(s, key, parent, fault) ==
  IF s.exc # NoError THEN s
  ELSE IF fault.step = "appendChild" THEN Throw(s, fault.error)
  ELSE LET wrapper == s.nextId + 1
       IN Log([s EXCEPT !.nextId = wrapper, !.attached = Put(@, wrapper, parent)],
              "appendChild", key)

\* const root = createRoot(wrapper)
createRoot(s, key, wrapper, fault) ==
  IF s.exc # NoError THEN s
  ELSE IF fault.step = "createRoot" THEN Throw(s, fault.error)
  ELSE Log([s EXCEPT !.liveRoots = @ \cup {wrapper}], "createRoot", key)

\* confirms[key] = { wrapper, root }
recordEntry(s, key, wrapper) ==
  IF s.exc # NoError THEN s
  ELSE Log([s EXCEPT !.confirms = Put(@, key, [wrapper |-> wrapper, root |-> wrapper])],
           "record", key)

\* root.render(<Component {...props} />)
render(s, key, root, Component, props, fault) ==
  IF s.exc # NoError THEN s
  ELSE IF fault.step = "render" THEN Throw(s, fault.error)
  ELSE Log([s EXCEPT !.rendered = Put(@, root, <<Component, props>>)],
           "render", key)

\* callbacks.mounted?.()
callMounted(s, key, wrapper, fault) ==
  IF s.exc # NoError THEN s
  ELSE IF s.callbacks.mounted = Undefined THEN s
  ELSE IF fault.step = "mounted" THEN Throw(s, fault.error)
  ELSE Log(s, "mounted", key)

\* Mutant of mountCatch: the catch block rethrows without deleting the entry.
mountCatch_keepsEntry(s, key) ==
  IF s.exc = NoError THEN s ELSE Log(s, "catch", key)

\* catch (error) { delete confirms[key]; throw error; }
mountCatch(s, key) ==
  IF s.exc = NoError THEN s
  ELSE Log([s EXCEPT !.confirms = Delete(@, key)], "catch", key)

\* Mutant of mount: the component is rendered before the entry is recorded.
mount_renderFirst(s, Component, props, mountNode, rnd, fault) ==
  LET key == generateKey(rnd)
      parent == getParentNode(s, mountNode)
      s1 == appendChild(s, key, parent, fault)
      wrapper == s1.nextId
      s2 == createRoot(s1, key, wrapper, fault)
      s3 == render(s2, key, wrapper, Component, props, fault)
      s4 == recordEntry(s3, key, wrapper)
      s5 == callMounted(s4, key, wrapper, fault)
  IN mountCatch(s5, key)

\* mount(Component, props, mountNode), with Math.random yielding rnd and the
\* step named by fault throwing.  The result carries the key (returned when
\* exc is NoError) and the state the call leaves.
mount(s, Component, props, mountNode, rnd, fault) ==
  LET key == generateKey(rnd)
      parent == getParentNode(s, mountNode)
      s1 == appendChild(s, key, parent, fault)
      wrapper == s1.nextId
      s2 == createRoot(s1, key, wrapper, fault)
      s3 == recordEntry(s2, key, wrapper)
      s4 == render(s3, key, wrapper, Component, props, fault)
      s5 == callMounted(s4, key, wrapper, fault)
  IN mountCatch(s5, key)

(* ------------------------------- unmount -------------------------------- *)

\* The keys the rendered component's cleanup code calls unmount with while
\* root.unmount() runs it: a call re-entered from inside the teardown.
Plans == UNION {[1 .. n -> Keys] : n \in 0 .. MaxReenter}

RECURSIVE unmount(_, _, _)

\* Mutant of deleteEntry: unmount leaves the entry in the registry.
deleteEntry_keepsEntry(s, key) ==
  IF s.exc # NoError THEN s ELSE Log(s, "delete", key)

\* Mutant of deleteEntry: unmount empties the whole registry.
deleteEntry_clearsAll(s, key) ==
  IF s.exc # NoError THEN s
  ELSE Log([s EXCEPT !.confirms = EmptyMap], "delete", key)

\* delete confirms[key]
deleteEntry(s, key) ==
  IF s.exc # NoError THEN s
  ELSE Log([s EXCEPT !.confirms = Delete(@, key)], "delete", key)

\* root.unmount() of React: a live root runs the cleanup of what it rendered
\* (which may call unmount again: plan) and is released; a root that was
\* already torn down throws.
rootUnmount(s, key, root, plan) ==
  IF s.exc # NoError THEN s
  ELSE LET s1 == Log([s EXCEPT !.rootUnmounts[root] = @ + 1], "root.unmount", key)
       IN IF root \notin s1.liveRoots THEN Throw(Log(s1, "root.throws", key), "RootError")
          ELSE LET s2 == IF plan = <<>> THEN s1 ELSE unmount(s1, Head(plan), Tail(plan))
               IN [s2 EXCEPT !.liveRoots = @ \ {root}, !.rendered = Delete(@, root)]

\* Mutant of tryRootUnmount: the call is not wrapped in try/catch.
tryRootUnmount_noCatch(s, key, confirmation, plan) ==
  rootUnmount(s, key, confirmation.root, plan)

\* try { confirmation.root.unmount() } catch (error) { console.warn(...) }
tryRootUnmount(s, key, confirmation, plan) ==
  LET r == rootUnmount(s, key, confirmation.root, plan)
  IN IF s.exc = NoError /\ r.exc # NoError
     THEN Log([r EXCEPT !.exc = NoError], "warn.root", key)
     ELSE r

\* wrapper.remove() of the DOM: an attached node is detached; a node that was
\* already removed throws.
wrapperRemove(s, key, wrapper) ==
  IF s.exc # NoError THEN s
  ELSE LET s1 == Log([s EXCEPT !.removes[wrapper] = @ + 1], "wrapper.remove", key)
       IN IF wrapper \notin DOMAIN s1.attached THEN Throw(Log(s1, "wrapper.throws", key), "DomError")
          ELSE [s1 EXCEPT !.attached = Delete(@, wrapper)]

\* Mutant of tryWrapperRemove: unmount does not remove the wrapper.
tryWrapperRemove_skipped(s, key, confirmation) == s

\* try { confirmation.wrapper.remove() } catch (error) { console.warn(...) }
tryWrapperRemove(s, key, confirmation) ==
  LET r == wrapperRemove(s, key, confirmation.wrapper)
  IN IF s.exc = NoError /\ r.exc # NoError
     THEN Log([r EXCEPT !.exc = NoError], "warn.wrapper", key)
     ELSE r

\* Mutant of unmount: no early return for a key that is not tracked, so both
\* release steps dereference an undefined entry, throw and are warned about.
unmount_noEarlyReturn(s, key, plan) ==
  LET s0 == Log(s, "unmount", key)
  IN IF key \notin DOMAIN s.confirms
     THEN Log(Log(deleteEntry(s0, key), "warn.root", key), "warn.wrapper", key)
     ELSE LET confirmation == s.confirms[key]
              s1 == deleteEntry(s0, key)
              s2 == tryRootUnmount(s1, key, confirmation, plan)
          IN tryWrapperRemove(s2, key, confirmation)

\* Mutant of unmount: the wrapper is removed before the root is unmounted.
unmount_removeFirst(s, key, plan) ==
  LET s0 == Log(s, "unmount", key)
  IN IF key \notin DOMAIN s.confirms THEN s0
     ELSE LET confirmation == s.confirms[key]
              s1 == deleteEntry(s0, key)
              s2 == tryWrapperRemove(s1, key, confirmation)
          IN tryRootUnmount(s2, key, confirmation, plan)

\* Mutant of unmount: the entry is deleted after the release steps.
unmount_deleteLast(s, key, plan) ==
  LET s0 == Log(s, "unmount", key)
  IN IF key \notin DOMAIN s.confirms THEN s0
     ELSE LET confirmation == s.confirms[key]
              s1 == tryRootUnmount(s0, key, confirmation, plan)
              s2 == tryWrapperRemove(s1, key, confirmation)
          IN deleteEntry(s2, key)

\* unmount(key); plan is what the cleanup run by root.unmount() re-enters.
unmount(s, key, plan) ==
  LET s0 == Log(s, "unmount", key)
  IN IF key \notin DOMAIN s.confirms THEN s0
     ELSE LET confirmation == s.confirms[key]
              s1 == deleteEntry(s0, key)
              s2 == tryRootUnmount(s1, key, confirmation, plan)
          IN tryWrapperRemove(s2, key, confirmation)

(* ------------------------- calls and their record ----------------------- *)

Outcome(r) == IF r.exc = NoError THEN "returned" ELSE "threw"

\* How a call relates to the call right before it:
\*   "remount"  an unmount of the key that the call before, a mount on an
\*              empty registry, has just returned;
\*   "repeat"   an unmount of the key that the call before, an unmount that
\*              found the key tracked, was given;
\*   "again"    the same after an unmount that found the key untracked;
\*   "none"     anything else.
Follows(op, key) ==
  IF op # "unmount" \/ key # last.key \/ last.mounter # 1 THEN "none"
  ELSE IF last.op = "mount" /\ last.outcome = "returned" /\ last.empty THEN "remount"
  ELSE IF last.op = "unmount" THEN (IF last.tracked THEN "repeat" ELSE "again")
  ELSE "none"

\* The record of a call: the operation, its key (generated by mount, passed
\* to unmount), whether it returned or threw, the error it threw and the
\* error its failing step raised, the wrapper it created or released (0:
\* none), whether the registry tracked the key and whether the registry was
\* empty when the call started, the events of the call in order; of a mount,
\* the mountNode it was given; the mounter the call was made on (1: the
\* mounter of confirms, 2: the mounter of other).
CallRecord(op, key, r, raised, id) ==
  [mounter |-> 1, op |-> op, key |-> key, mountNode |-> Undefined, outcome |-> Outcome(r), error |-> r.exc,
   raised |-> raised, id |-> id,
   tracked |-> key \in DOMAIN confirms, empty |-> DOMAIN confirms = {},
   follows |-> Follows(op, key), trace |-> r.trace]

\* The keys of the events ev of a trace.
KeysOf(trace, ev) == {trace[i].key : i \in {j \in 1 .. Len(trace) : trace[j].ev = ev}}

\* The state a handler leaves, written back.
Leaves(r) ==
  /\ confirms' = r.confirms
  /\ attached' = r.attached
  /\ liveRoots' = r.liveRoots
  /\ rendered' = r.rendered
  /\ nextId' = r.nextId
  /\ rootUnmounts' = r.rootUnmounts
  /\ removes' = r.removes

(* ------------------------------- actions -------------------------------- *)

\* createDomTreeMounter(defaultMountNode): the closure of a new mounter.
createDomTreeMounter(dflt) ==
  [defaultMountNode |-> dflt, callbacks |-> [mounted |-> Undefined], confirms |-> EmptyMap]

\* The mounter of confirms, just created, the DOM holding none of its wrappers.
InitMounter ==
  /\ defaultMountNode \in DefaultNodes
  /\ confirms = EmptyMap
  /\ callbacks = [mounted |-> Undefined]
  /\ attached = EmptyMap
  /\ liveRoots = {}
  /\ rendered = EmptyMap
  /\ nextId = 0
  /\ rootUnmounts = [i \in Ids |-> 0]
  /\ removes = [i \in Ids |-> 0]
  /\ last = [mounter |-> 1, op |-> "none", key |-> Undefined, mountNode |-> Undefined,
             outcome |-> "none", error |-> NoError,
             raised |-> NoError, id |-> 0, tracked |-> FALSE, empty |-> TRUE,
             follows |-> "none", trace |-> <<>>]
  /\ hist = [entryKey |-> EmptyMap, unmounted |-> {}, retired |-> {}]
  /\ options = EmptyMap

Init == InitMounter /\ other = createDomTreeMounter(Undefined)

\* The calls of mount the model takes: the number of wrapper elements is
\* capped, and only a callback that is set can be the step that throws.
CanMount(fault) ==
  /\ nextId < MaxMounts
  /\ fault.step = "mounted" => callbacks.mounted # Undefined

\* A caller calls mount(Component, props, mountNode): r is what the call
\* leaves, mount(State, ...).
MountCall(Component, props, mountNode, rnd, fault, r) ==
  /\ CanMount(fault)
  /\ Leaves(r)
  /\ last' = [CallRecord("mount", generateKey(rnd), r,
                         IF r.exc = NoError THEN NoError ELSE fault.error,
                         IF r.nextId > nextId THEN r.nextId ELSE 0)
                EXCEPT !.mountNode = mountNode]
  /\ UNCHANGED <<defaultMountNode, callbacks, other, options>>

\* unmount(key) reaches the cleanup code of a rendered component: the key is
\* tracked and its root is live, so that root.unmount() runs the cleanup.
Reenters(key) == key \in DOMAIN confirms /\ confirms[key].root \in liveRoots

\* Only a call that reaches the cleanup code has a plan of re-entered calls.
CanReenter(key, plan) == plan # <<>> => Reenters(key)

\* A caller calls unmount(key); the cleanup code, when it runs, calls unmount
\* with the keys of plan, each from inside the root.unmount() of the one
\* before.  r is what the call leaves, unmount(State, key, plan).
UnmountCall(key, plan, r) ==
  /\ CanReenter(key, plan)
  /\ Leaves(r)
  /\ last' = CallRecord("unmount", key, r, NoError,
                        IF key \in DOMAIN confirms THEN confirms[key].wrapper ELSE 0)
  /\ UNCHANGED <<defaultMountNode, callbacks, other, options>>

Mount(Component, props, mountNode, rnd, fault) ==
  /\ CanMount(fault)
  /\ \E r \in {mount(State, Component, props, mountNode, rnd, fault)} :
       MountCall(Component, props, mountNode, rnd, fault, r)
  /\ UNCHANGED hist

Unmount(key, plan) ==
  /\ CanReenter(key, plan)
  /\ \E r \in {unmount(State, key, plan)} : UnmountCall(key, plan, r)
  /\ UNCHANGED hist

\* The same calls with the history of the entries kept: the key each entry
\* was returned under by a successful mount (entryKey), the entries whose key
\* was passed to unmount after they were created (unmounted), the keys that
\* unmount removed from the registry (retired).
MountH(Component, props, mountNode, rnd, fault) ==
  /\ CanMount(fault)
  /\ \E r \in {mount(State, Component, props, mountNode, rnd, fault)} :
    /\ MountCall(Component, props, mountNode, rnd, fault, r)
    /\ hist' = IF r.exc # NoError THEN hist
               ELSE [hist EXCEPT !.entryKey = Put(@, r.nextId, generateKey(rnd))]

UnmountH(key, plan) ==
  /\ CanReenter(key, plan)
  /\ \E r \in {unmount(State, key, plan)} :
    /\ UnmountCall(key, plan, r)
    /\ hist' = [hist EXCEPT
                  !.retired = @ \cup KeysOf(r.trace, "delete"),
                  !.unmounted = @ \cup {e \in DOMAIN hist.entryKey :
                                          hist.entryKey[e] \in KeysOf(r.trace, "unmount")}]

\* What is recorded of a step of code outside the mounter.
External ==
  [mounter |-> 1, op |-> "external", key |-> Undefined, mountNode |-> Undefined,
   outcome |-> "returned", error |-> NoError,
   raised |-> NoError, id |-> 0, tracked |-> FALSE, empty |-> DOMAIN confirms = {},
   follows |-> "none", trace |-> <<>>]

\* Code outside the mounter tears a live root down (the case the first
\* warning of unmount reports).
ExternalRootUnmount(root) ==
  /\ root \in liveRoots
  /\ liveRoots' = liveRoots \ {root}
  /\ rendered' = Delete(rendered, root)
  /\ last' = External
  /\ UNCHANGED <<defaultMountNode, confirms, callbacks, attached, nextId,
                 rootUnmounts, removes, hist, other, options>>

\* Code outside the mounter removes an attached wrapper from the DOM (the
\* case the second warning of unmount reports).
ExternalWrapperRemove(wrapper) ==
  /\ wrapper \in DOMAIN attached
  /\ attached' = Delete(attached, wrapper)
  /\ last' = External
  /\ UNCHANGED <<defaultMountNode, confirms, callbacks, liveRoots, rendered, nextId,
                 rootUnmounts, removes, hist, other, options>>

Next ==
  \/ \E Component \in Components, props \in PropsSet, mountNode \in MountNodes,
        rnd \in RandomInts, fault \in Faults :
       Mount(Component, props, mountNode, rnd, fault)
  \/ \E key \in Keys, plan \in Plans : Unmount(key, plan)
  \/ \E root \in Ids : ExternalRootUnmount(root)
  \/ \E wrapper \in Ids : ExternalWrapperRemove(wrapper)

Spec == Init /\ [][Next]_vars

NextH ==
  \/ \E Component \in Components, props \in PropsSet, mountNode \in MountNodes,
        rnd \in RandomInts, fault \in Faults :
       MountH(Component, props, mountNode, rnd, fault)
  \/ \E key \in Keys, plan \in Plans : UnmountH(key, plan)
  \/ \E root \in Ids : ExternalRootUnmount(root)
  \/ \E wrapper \in Ids : ExternalWrapperRemove(wrapper)

\* The mounter with the history of its entries.
SpecH == Init /\ [][NextH]_vars

(* ------------------------ writes to mounter.options --------------------- *)

\* The functions a caller may store as a mounted callback.
CallbackFns == {"onMounted"}

\* Mutant of OptionsObject: the mounter returns its callbacks record as options.
OptionsObject_callbacks == "callbacks"

\* return { mount, unmount, options: {} }: the object the options property of
\* the returned mounter refers to, a new object literal.
OptionsObject == "options"

\* A caller executes mounter.options.mounted = fn.
WriteOptions(fn) ==
  /\ IF OptionsObject = "callbacks"
     THEN callbacks' = [callbacks EXCEPT !.mounted = fn] /\ UNCHANGED options
     ELSE options' = Put(options, "mounted", fn) /\ UNCHANGED callbacks
  /\ last' = [External EXCEPT !.op = "options"]
  /\ UNCHANGED <<defaultMountNode, confirms, attached, liveRoots, rendered, nextId,
                 rootUnmounts, removes, hist, other>>

NextOptions ==
  \/ Next
  \/ \E fn \in CallbackFns : WriteOptions(fn)

\* The mounter with callers that write to its options object.
SpecOptions == Init /\ [][NextOptions]_vars

(* ----------------------------- two mounters ----------------------------- *)

\* What a handler of the second mounter reads and writes: its own closure,
\* the same DOM and roots.
StateOther ==
  [State EXCEPT !.defaultMountNode = other.defaultMountNode,
                !.callbacks = other.callbacks,
                !.confirms = other.confirms]

\* The state a handler of the second mounter leaves, written back.
LeavesOther(r) ==
  /\ other' = [other EXCEPT !.confirms = r.confirms]
  /\ attached' = r.attached
  /\ liveRoots' = r.liveRoots
  /\ rendered' = r.rendered
  /\ nextId' = r.nextId
  /\ rootUnmounts' = r.rootUnmounts
  /\ removes' = r.removes
  /\ UNCHANGED <<defaultMountNode, callbacks, confirms, hist, options>>

\* The record of a call on the second mounter.
CallRecordOther(op, key, r, raised, id) ==
  [CallRecord(op, key, r, raised, id) EXCEPT
     !.mounter = 2,
     !.tracked = key \in DOMAIN other.confirms,
     !.empty = DOMAIN other.confirms = {},
     !.follows = "none"]

\* A caller calls mount on the second mounter.
MountOther(Component, props, mountNode, rnd, fault) ==
  /\ nextId < MaxMounts
  /\ fault.step = "mounted" => other.callbacks.mounted # Undefined
  /\ \E r \in {mount(StateOther, Component, props, mountNode, rnd, fault)} :
       /\ LeavesOther(r)
       /\ last' = [CallRecordOther("mount", generateKey(rnd), r,
                                   IF r.exc = NoError THEN NoError ELSE fault.error,
                                   IF r.nextId > nextId THEN r.nextId ELSE 0)
                     EXCEPT !.mountNode = mountNode]

\* A caller calls unmount(key) on the second mounter; the cleanup code, when
\* it runs, calls unmount of the same mounter with the keys of plan.
UnmountOther(key, plan) ==
  /\ plan # <<>> => (key \in DOMAIN other.confirms /\ other.confirms[key].root \in liveRoots)
  /\ \E r \in {unmount(StateOther, key, plan)} :
       /\ LeavesOther(r)
       /\ last' = CallRecordOther("unmount", key, r, NoError,
                                  IF key \in DOMAIN other.confirms
                                  THEN other.confirms[key].wrapper ELSE 0)

InitTwo == InitMounter /\ \E dflt \in DefaultNodes : other = createDomTreeMounter(dflt)

NextTwo ==
  \/ \E Component \in Components, props \in PropsSet, mountNode \in MountNodes,
        rnd \in RandomInts, fault \in Faults :
       \/ Mount(Component, props, mountNode, rnd, fault)
       \/ MountOther(Component, props, mountNode, rnd, fault)
  \/ \E key \in Keys, plan \in Plans :
       \/ Unmount(key, plan)
       \/ UnmountOther(key, plan)
  \/ \E root \in Ids : ExternalRootUnmount(root)
  \/ \E wrapper \in Ids : ExternalWrapperRemove(wrapper)

\* Two mounters, made by separate createDomTreeMounter calls, on one document.
SpecTwo == InitTwo /\ [][NextTwo]_vars

(* ------------------------------ type check ------------------------------ *)

TypeOK ==
  /\ defaultMountNode \in DefaultNodes
  /\ DOMAIN confirms \subseteq Keys
  /\ \A k \in DOMAIN confirms : confirms[k].wrapper \in Ids /\ confirms[k].root \in Ids
  /\ DOMAIN attached \subseteq Ids
  /\ liveRoots \subseteq Ids
  /\ nextId \in 0 .. MaxMounts

(* ------------------------------- claims --------------------------------- *)

\* The positions of the events ev of the last call that belong to key.
At(ev, key) ==
  {i \in 1 .. Len(last.trace) : last.trace[i].ev = ev /\ last.trace[i].key = key}

\* The last call was a mount that threw.
MountFailed == last.op = "mount" /\ last.outcome = "threw"

\* C1: after a mount call that failed, no wrapper node created by that call
\* is attached under the target and no root created by that call is live.
\* (The wrapper a mount creates is last.id, its root has the same identity.)
C1_FailedMountLeavesNoOrphan ==
  MountFailed => (last.id \notin DOMAIN attached /\ last.id \notin liveRoots)

\* C2: a mount call that fails throws the error its failing step raised, and
\* the registry holds no entry under the key generated for the call.
C2_FailedMountRethrowsAndUntracks ==
  MountFailed =>
    /\ last.error = last.raised
    /\ last.error # NoError
    /\ last.key \notin DOMAIN confirms

\* C2's case: a mount failed after it had recorded its entry (at render).
C2_Witness ==
  /\ MountFailed
  /\ At("record", last.key) # {}
  /\ last.error = "RenderError"

\* C3: a successful mount returns a key that the registry did not track at
\* the moment of the call.
C3_ReturnedKeyIsFresh ==
  (last.op = "mount" /\ last.outcome = "returned") => ~last.tracked

\* What unmount may release: the registry, the DOM, the roots, and the
\* numbers of release attempts.
Released == <<confirms, attached, liveRoots, rendered, rootUnmounts, removes>>

\* C4: unmount(key) called again right after unmount(key) leaves the registry,
\* the attached wrappers and the numbers of root.unmount and wrapper.remove
\* attempts as the first call left them.
C4_UnmountIdempotent ==
  [][last'.follows \in {"repeat", "again"} =>
       /\ confirms' = confirms
       /\ attached' = attached
       /\ rootUnmounts' = rootUnmounts
       /\ removes' = removes]_vars

\* C4's case: the second of two unmount calls in a row with the same key,
\* the first of which found the key tracked and released its entry.
C4_Witness ==
  /\ last.follows = "repeat"
  /\ \E e \in Ids : rootUnmounts[e] = 1 /\ removes[e] = 1

C6_MountThenUnmountLeavesNothing ==
  last.follows = "remount" =>
    /\ DOMAIN confirms = {}
    /\ nextId \notin DOMAIN attached
    /\ nextId \notin DOMAIN rendered
    /\ nextId \notin liveRoots

\* C6's case: such an unmount has run and released the wrapper of the mount.
C6_Witness ==
  /\ last.follows = "remount"
  /\ last.id = nextId
  /\ removes[nextId] = 1

\* C7: unmount never throws: whichever release steps fail, the call returns
\* normally, and each failure is followed by its warning and nothing else
\* is warned about.
C7_UnmountNeverThrows ==
  last.op = "unmount" =>
    /\ last.outcome = "returned"
    /\ last.error = NoError
    /\ \A i \in 1 .. Len(last.trace) :
         LET e == last.trace[i]
             Next1(ev) == i < Len(last.trace) /\ last.trace[i + 1].ev = ev
                            /\ last.trace[i + 1].key = e.key
             Prev1(ev) == i > 1 /\ last.trace[i - 1].ev = ev
                            /\ last.trace[i - 1].key = e.key
         IN /\ e.ev = "root.throws" => Next1("warn.root")
            /\ e.ev = "wrapper.throws" => Next1("warn.wrapper")
            /\ e.ev = "warn.root" => Prev1("root.throws")
            /\ e.ev = "warn.wrapper" => Prev1("wrapper.throws")

\* C7's case: an unmount of a tracked key both of whose release steps failed.
C7_Witness ==
  /\ last.op = "unmount"
  /\ last.tracked
  /\ At("warn.root", last.key) # {}
  /\ At("warn.wrapper", last.key) # {}

\* C8: every execution of unmount on a tracked key attempts root.unmount and
\* then wrapper.remove, also when root.unmount failed.
C8_RootThenWrapper ==
  last.op = "unmount" =>
    \A n \in 1 .. Len(last.trace) :
      (last.trace[n].ev = "unmount" /\ last.trace[n].tracked) =>
        LET k == last.trace[n].key
        IN /\ At("root.unmount", k) # {}
           /\ At("wrapper.remove", k) # {}
           /\ \A i \in At("root.unmount", k), j \in At("wrapper.remove", k) : n < i /\ i < j

\* C8's case: root.unmount failed and wrapper.remove was attempted after it.
C8_Witness ==
  /\ last.op = "unmount"
  /\ \E i \in At("warn.root", last.key), j \in At("wrapper.remove", last.key) : i < j

\* C9: when root.unmount or wrapper.remove is attempted for a key, the key is
\* already absent from the registry; an unmount(key) re-entered after the
\* entry was deleted finds the key untracked, and no key gets a second
\* root.unmount or wrapper.remove in the call.
C9_DeleteBeforeRelease ==
  last.op = "unmount" =>
    /\ \A i \in 1 .. Len(last.trace) :
         last.trace[i].ev \in {"root.unmount", "wrapper.remove"} => ~last.trace[i].tracked
    /\ \A k \in Keys :
         /\ \A i \in At("delete", k), j \in At("unmount", k) : i < j => ~last.trace[j].tracked
         /\ Cardinality(At("root.unmount", k)) <= 1
         /\ Cardinality(At("wrapper.remove", k)) <= 1

\* C9's case: unmount(key) re-entered from inside root.unmount() of the same
\* key, before its wrapper.remove.
C9_Witness ==
  /\ last.op = "unmount"
  /\ \E i \in At("root.unmount", last.key), j \in At("unmount", last.key),
        n \in At("wrapper.remove", last.key) : i < j /\ j < n

\* C10: every entry created by a successful mount whose key was unmounted at
\* least once afterwards has had root.unmount and wrapper.remove attempted
\* exactly once each, on its own root and wrapper.
C10_DestroyedExactlyOnce ==
  \A e \in hist.unmounted : rootUnmounts[e] = 1 /\ removes[e] = 1

\* Key k is tracked before and after the step, with the same entry, the same
\* root state and rendered content, and the same attachment of its wrapper.
EntryUntouched(k) ==
  /\ k \in DOMAIN confirms'
  /\ confirms'[k] = confirms[k]
  /\ (confirms[k].root \in liveRoots') = (confirms[k].root \in liveRoots)
  /\ (confirms[k].root \in DOMAIN rendered') = (confirms[k].root \in DOMAIN rendered)
  /\ (confirms[k].root \in DOMAIN rendered =>
        rendered'[confirms[k].root] = rendered[confirms[k].root])
  /\ (confirms[k].wrapper \in DOMAIN attached') = (confirms[k].wrapper \in DOMAIN attached)
  /\ (confirms[k].wrapper \in DOMAIN attached =>
        attached'[confirms[k].wrapper] = attached[confirms[k].wrapper])
  /\ rootUnmounts'[confirms[k].root] = rootUnmounts[confirms[k].root]
  /\ removes'[confirms[k].wrapper] = removes[confirms[k].wrapper]

\* C11: unmount(k) leaves the registry entry, the root and the attached
\* wrapper of every tracked key other than k unchanged, also when a release
\* step for k fails.  (The keys of a call are k and the keys unmount was
\* re-entered with by the cleanup code: each of those is its own unmount.)
C11_UnmountLeavesOtherKeys ==
  [][last'.op = "unmount" =>
       \A k \in (DOMAIN confirms) \ KeysOf(last'.trace, "unmount") : EntryUntouched(k)]_vars

\* C11's case: an unmount of a tracked key, one of whose release steps
\* failed, while another key is tracked with its root live and its wrapper
\* attached.
C11_Witness ==
  /\ last.op = "unmount"
  /\ last.tracked
  /\ At("warn.root", last.key) \cup At("warn.wrapper", last.key) # {}
  /\ \E k \in DOMAIN confirms :
       /\ k # last.key
       /\ confirms[k].root \in liveRoots
       /\ confirms[k].wrapper \in DOMAIN attached

\* C12: a key that mount returned and unmount later removed from the registry
\* is never returned by a later mount and never gets a registry entry again.
C12_RetiredKeyNeverReused ==
  /\ \A k \in hist.retired : k \notin DOMAIN confirms
  /\ (last.op = "mount" /\ last.key \in hist.retired) =>
        (last.outcome # "returned" /\ At("record", last.key) = {})

\* C13: a failed mount leaves the registry entry, the root and the attached
\* wrapper of every key tracked before the call unchanged.
C13_FailedMountLeavesTracked ==
  [][(last'.op = "mount" /\ last'.outcome = "threw") =>
       \A k \in DOMAIN confirms : EntryUntouched(k)]_vars

\* C14: the container a mount attaches its wrapper to is the per-call
\* mountNode when one is given, otherwise the default node of the mounter
\* when one was given, otherwise document.body; document.body is used only
\* when neither is given.
C14_TargetByPriority ==
  (last.op = "mount" /\ last.id # 0) =>
     LET parent == attached[last.id]
     IN /\ last.mountNode # Undefined => parent = last.mountNode
        /\ (last.mountNode = Undefined /\ defaultMountNode # Undefined) =>
              parent = defaultMountNode
        /\ (last.mountNode = Undefined /\ defaultMountNode = Undefined) =>
              parent = DocumentBody
        /\ parent = DocumentBody =>
              (last.mountNode = Undefined /\ defaultMountNode = Undefined)

\* C14's case: a mount given an override on a mounter that has a default node
\* appended its wrapper under the override.
C14_Witness ==
  /\ last.op = "mount"
  /\ last.id # 0
  /\ last.mountNode # Undefined
  /\ defaultMountNode # Undefined
  /\ attached[last.id] = last.mountNode

\* The events of the last call, in order.
Steps == [i \in 1 .. Len(last.trace) |-> last.trace[i].ev]

MountReturned == last.op = "mount" /\ last.outcome = "returned"

\* C15 as stated: a successful mount appends the wrapper, creates the root,
\* renders the component, records the entry, and only then invokes the
\* mounted callback if one is set; the entry does not exist before the
\* component has been rendered.
C15_RenderBeforeRecord ==
  MountReturned =>
     /\ \A i \in At("render", last.key), j \in At("record", last.key) : i < j
     /\ \/ Steps = <<"appendChild", "createRoot", "render", "record">>
        \/ Steps = <<"appendChild", "createRoot", "render", "record", "mounted">>

\* C15 amended: a successful mount appends the wrapper, creates the root,
\* records the entry, renders the component, and only then invokes the
\* mounted callback if one is set; the entry of the key exists while the
\* component is rendered.
C15_RecordBeforeRender ==
  MountReturned =>
     /\ \/ callbacks.mounted = Undefined
           /\ Steps = <<"appendChild", "createRoot", "record", "render">>
        \/ callbacks.mounted # Undefined
           /\ Steps = <<"appendChild", "createRoot", "record", "render", "mounted">>
     /\ \A i \in At("render", last.key) : last.trace[i].tracked

\* C15's case: a mount returned its key.
C15_Witness ==
  /\ MountReturned
  /\ last.key \in DOMAIN confirms
  /\ confirms[last.key].root \in DOMAIN rendered

\* The tracked keys whose entry has wrapper w.
KeysOfWrapper(w) == {k \in DOMAIN confirms : confirms[k].wrapper = w}

\* C16: every wrapper the mounter appended that has not been removed is the
\* wrapper of exactly one tracked entry, and every tracked entry's wrapper is
\* one the mounter appended.
C16_NoLeak ==
  /\ \A w \in DOMAIN attached : Cardinality(KeysOfWrapper(w)) = 1
  /\ \A k \in DOMAIN confirms : confirms[k].wrapper \in 1 .. nextId

\* What unmount of either mounter may release in the DOM and the roots.
ReleasedDom == <<attached, liveRoots, rendered, rootUnmounts, removes>>

\* C17: mount and unmount on one mounter leave the other mounter's tracked
\* entries unchanged, and unmount on one mounter with a key issued by the
\* other (tracked by the other) is a no-op that releases nothing.
C17_IndependentRegistries ==
  [][/\ (last'.op \in {"mount", "unmount"} /\ last'.mounter = 1) => other' = other
     /\ (last'.op \in {"mount", "unmount"} /\ last'.mounter = 2) => confirms' = confirms
     /\ (last'.op = "unmount" /\ last'.mounter = 1 /\ last'.key \in DOMAIN other.confirms) =>
           (confirms' = confirms /\ ReleasedDom' = ReleasedDom)
     /\ (last'.op = "unmount" /\ last'.mounter = 2 /\ last'.key \in DOMAIN confirms) =>
           (other' = other /\ ReleasedDom' = ReleasedDom)]_vars

\* C18: the mounted callback is unset in every reachable state, whatever a
\* caller writes to the options object of the mounter; mount never invokes a
\* mounted callback and never fails at that step.
C18_MountedCallbackUnset ==
  /\ callbacks.mounted = Undefined
  /\ last.op = "mount" =>
        /\ At("mounted", last.key) = {}
        /\ last.raised # ErrorOf("mounted")
        /\ last.error # ErrorOf("mounted")

\* C18's case: a caller has stored a function as options.mounted and a mount
\* made after that returned its key.
C18_Witness ==
  /\ "mounted" \in DOMAIN options
  /\ options["mounted"] \in CallbackFns
  /\ MountReturned

====
